---------------------------- MODULE Spec2Model ----------------------------
(***************************************************************************)
(* Turn-end prediction head on a frozen Whisper model                       *)
(* (src/experiments.ipynb): TurnEndClassifier, CustomWhisperModel,          *)
(* TurnEndPipeline, train_single_epoch and train_model.                     *)
(*                                                                          *)
(* Audio is a run-length encoded sample array: a sequence of runs           *)
(* [v |-> sample value, n |-> number of consecutive samples], kept          *)
(* canonical (no empty run, no two adjacent runs of one value), so that the *)
(* 480000-sample window of the pipeline is modelled at its real size.       *)
(* Tensors are abstracted to their shape and one integer summary value;     *)
(* probabilities are fixed-point, in units of 1/Resolution.                 *)
(***************************************************************************)
EXTENDS Integers, Sequences, FiniteSets, TLC

(* ------------------------------ constants ------------------------------ *)

max_duration == 30
sampling_rate == 16000
n_samples == 480000
nb_max_frames == 3000
encoder_steps == 1500
d_model == 384
hidden_dim == 64
partial_seconds == 4

(* -------------------------------- bounds ------------------------------- *)

MaxRuns == 2
MaxEpochs == 2
Resolution == 64
MaxSeqLen == 30
MaxBatch == 2
MaxWeight == 2
MaxVal == 3
MaxSamples == 2

(* ------------------------------- helpers ------------------------------- *)

Min(a, b) == IF a <= b THEN a ELSE b

Max(a, b) == IF a >= b THEN a ELSE b

Sign(x) == IF x > 0 THEN 1 ELSE IF x < 0 THEN 0 - 1 ELSE 0

ReLU(x) == Max(x, 0)

\* Mutant of Sigmoid: the last Linear's output returned as it is.
Sigmoid_missing(x) == (Resolution \div 2) + x

\* nn.Sigmoid on the fixed-point grid: monotone, saturating at 0 and at 1
\* (a float sigmoid of a large finite argument is exactly 0.0 or 1.0).
Sigmoid(x) == Max(0, Min(Resolution, (Resolution \div 2) + x))

(* --------------------------- sample arrays ----------------------------- *)

Samples == {0, 1}

RECURSIVE Length(_)
Length(a) == IF a = <<>> THEN 0 ELSE Head(a).n + Length(Tail(a))

\* Number of samples of value 1.
RECURSIVE Energy(_)
Energy(a) == IF a = <<>> THEN 0 ELSE Head(a).v * Head(a).n + Energy(Tail(a))

\* a followed by b, canonical.
Concat(a, b) ==
    IF a = <<>> THEN b
    ELSE IF b = <<>> THEN a
    ELSE IF a[Len(a)].v = b[1].v
         THEN SubSeq(a, 1, Len(a) - 1)
              \o <<[v |-> b[1].v, n |-> a[Len(a)].n + b[1].n]>>
              \o Tail(b)
         ELSE a \o b

\* a without its first k samples.
RECURSIVE DropFirst(_, _)
DropFirst(a, k) ==
    IF k <= 0 \/ a = <<>> THEN a
    ELSE IF Head(a).n <= k THEN DropFirst(Tail(a), k - Head(a).n)
    ELSE <<[v |-> Head(a).v, n |-> Head(a).n - k]>> \o Tail(a)

\* The first k samples of a.
RECURSIVE TakeFirst(_, _)
TakeFirst(a, k) ==
    IF k <= 0 \/ a = <<>> THEN <<>>
    ELSE IF Head(a).n <= k
         THEN <<Head(a)>> \o TakeFirst(Tail(a), k - Head(a).n)
    ELSE <<[v |-> Head(a).v, n |-> k]>>

\* Python a[start:]: a negative start counts from the end, and both ends
\* are clamped to the array.
PySliceFrom(a, start) ==
    LET n == Length(a)
        s == IF start < 0 THEN Max(n + start, 0) ELSE Min(start, n)
    IN  DropFirst(a, s)

\* Python a[:stop].
PySliceTo(a, stop) ==
    LET n == Length(a)
        e == IF stop < 0 THEN Max(n + stop, 0) ELSE Min(stop, n)
    IN  TakeFirst(a, e)

\* librosa.load(path, sr=target): the file's samples resampled from the
\* file's own rate to target; the returned rate is the target.
\* floor(n * target / rate), computed without leaving 32 bits.
Rescale(n, rate, target) ==
    (n \div rate) * target + ((n % rate) * target) \div rate

librosa_load(file, target) ==
    [audio_array |-> [i \in 1..Len(file.samples) |->
                        [v |-> file.samples[i].v,
                         n |-> Rescale(file.samples[i].n, file.rate, target)]],
     sampling_rate |-> target]

\* WhisperFeatureExtractor: the raw audio is cut to its FIRST n_samples
\* samples and zero-padded on the right to n_samples, then turned into
\* nb_max_frames log-mel frames.
feature_extractor(audio_array) ==
    LET cut == TakeFirst(audio_array, n_samples)
        pad == n_samples - Length(cut)
    IN  [input_features |->
            [frames |-> nb_max_frames,
             content |-> IF pad > 0 THEN Concat(cut, <<[v |-> 0, n |-> pad]>>)
                         ELSE cut]]

(* ------------------------------ base model ----------------------------- *)

\* Embedding of the one decoder seed token (distinct rows of the table).
TokenEmbed(token) ==
    CASE token = "decoder_start_token_id" -> 1
      [] token = "pad_token_id" -> 2
      [] OTHER -> 3

\* WhisperForConditionalGeneration.forward(output_hidden_states=True): a
\* deterministic function of the inputs and the base weights. The summary
\* value of the encoder states is the weight times the seconds of signal in
\* the 30 s feature window; the released Whisper configurations have
\* dropout 0, so the module mode does not enter.
WhisperForward(params, input_features, decoder_input_ids) ==
    [encoder_last_hidden_state |->
        [batch |-> 1, len |-> encoder_steps, dim |-> d_model,
         val |-> params * (Energy(input_features.content) \div sampling_rate)],
     decoder_hidden_states |->
        [batch |-> 1, len |-> Len(decoder_input_ids), dim |-> d_model,
         val |-> params * TokenEmbed(decoder_input_ids[1])]]

(* --------------------------- TurnEndClassifier ------------------------- *)

NoneHead == [is_none |-> TRUE]

HeadParams == {"compressor", "fc"}

\* TurnEndClassifier.__init__: builds the layers from the declared
\* dimensions; nothing is compared with the base model.
TurnEndClassifier_init(encoder_dim, decoder_dim) ==
    [is_none |-> FALSE,
     encoder_dim |-> encoder_dim, decoder_dim |-> decoder_dim,
     hidden_dim |-> hidden_dim,
     params |-> [g \in HeadParams |-> IF g = "compressor" THEN 1 ELSE 0],
     grad |-> [g \in HeadParams |-> 0],
     training |-> TRUE]

\* Mutant of encoder_conv: the three convolutions without padding.
encoder_conv_no_padding ==
    << [kernel_size |-> 5, stride |-> 3, padding |-> 0],
       [kernel_size |-> 5, stride |-> 3, padding |-> 0],
       [kernel_size |-> 5, stride |-> 3, padding |-> 0] >>

encoder_conv ==
    << [kernel_size |-> 5, stride |-> 3, padding |-> 1],
       [kernel_size |-> 5, stride |-> 3, padding |-> 1],
       [kernel_size |-> 5, stride |-> 3, padding |-> 1] >>

decoder_conv ==
    << [kernel_size |-> 3, stride |-> 1, padding |-> 1],
       [kernel_size |-> 3, stride |-> 1, padding |-> 1] >>

\* nn.Conv1d on a sequence of length n: PyTorch raises RuntimeError when the
\* padded input is shorter than the kernel; otherwise the output length is
\* floor((n + 2*padding - kernel_size) / stride) + 1.
Conv1d(layer, n) ==
    IF n + 2 * layer.padding < layer.kernel_size
    THEN [ok |-> FALSE, len |-> n]
    ELSE [ok |-> TRUE,
          len |-> ((n + 2 * layer.padding - layer.kernel_size)
                        \div layer.stride) + 1]

\* nn.Sequential of Conv1d + ReLU layers: the first failing layer stops it.
RECURSIVE Sequential(_, _)
Sequential(layers, n) ==
    IF layers = <<>> THEN [ok |-> TRUE, len |-> n]
    ELSE LET r == Conv1d(Head(layers), n)
         IN  IF r.ok THEN Sequential(Tail(layers), r.len) ELSE r

\* nn.AdaptiveMaxPool1d(1): needs a non-empty sequence, returns length 1.
AdaptiveMaxPool1d(n) == [ok |-> n >= 1, len |-> 1]

HeadError(kind) ==
    [status |-> kind, pool_in |-> <<>>, encoder_features |-> <<>>,
     decoder_features |-> <<>>]

\* TurnEndClassifier.forward up to the concatenation: the two reduce layers,
\* then conv stack and pool of each stream.
Compress(head, encoder_outputs, decoder_outputs) ==
    IF encoder_outputs.dim # head.encoder_dim THEN HeadError("RuntimeError")
    ELSE IF decoder_outputs.dim # head.decoder_dim THEN HeadError("RuntimeError")
    ELSE LET ec == Sequential(encoder_conv, encoder_outputs.len)
             dc == Sequential(decoder_conv, decoder_outputs.len)
         IN  IF ~ec.ok \/ ~AdaptiveMaxPool1d(ec.len).ok
             THEN HeadError("RuntimeError")
             ELSE IF ~dc.ok \/ ~AdaptiveMaxPool1d(dc.len).ok
             THEN HeadError("RuntimeError")
             ELSE [status |-> "ok",
                   pool_in |-> <<ec.len, dc.len>>,
                   encoder_features |->
                       <<[shape |-> <<encoder_outputs.batch, head.hidden_dim>>,
                          val |-> ReLU(head.params["compressor"]
                                        * encoder_outputs.val)]>>,
                   decoder_features |->
                       <<[shape |-> <<decoder_outputs.batch, head.hidden_dim>>,
                          val |-> ReLU(head.params["compressor"]
                                        * decoder_outputs.val)]>>]

\* TurnEndClassifier.fc on the concatenated features: Linear, ReLU, Linear,
\* Sigmoid; one probability per batch row.
fc(head, encoder_features, decoder_features) ==
    LET logit == ReLU(encoder_features.val + decoder_features.val)
                    + head.params["fc"]
    IN  [b \in 1..encoder_features.shape[1] |-> Sigmoid(logit)]

TurnEndClassifier_forward(head, encoder_outputs, decoder_outputs) ==
    LET c == Compress(head, encoder_outputs, decoder_outputs)
    IN  IF c.status # "ok" THEN [status |-> c.status, pred |-> <<>>]
        ELSE [status |-> "ok",
              pred |-> fc(head, c.encoder_features[1], c.decoder_features[1])]

(* --------------------------- CustomWhisperModel ------------------------ *)

\* Mutant of forward_with_turn_end: the head is not checked before the base
\* model runs, and calling None fails afterwards.
forward_with_turn_end_unchecked(params, head, input_features, decoder_input_ids) ==
    IF head.is_none
    THEN [status |-> "TypeError", base_forward_ran |-> TRUE, pred |-> <<>>]
    ELSE LET whisper_outputs ==
                 WhisperForward(params, input_features, decoder_input_ids)
             p == TurnEndClassifier_forward(head,
                      whisper_outputs.encoder_last_hidden_state,
                      whisper_outputs.decoder_hidden_states)
         IN  [status |-> p.status, base_forward_ran |-> TRUE, pred |-> p.pred]

\* CustomWhisperModel.forward_with_turn_end.
forward_with_turn_end(params, head, input_features, decoder_input_ids) ==
    IF head.is_none
    THEN [status |-> "AssertionError", base_forward_ran |-> FALSE, pred |-> <<>>]
    ELSE LET whisper_outputs ==
                 WhisperForward(params, input_features, decoder_input_ids)
             p == TurnEndClassifier_forward(head,
                      whisper_outputs.encoder_last_hidden_state,
                      whisper_outputs.decoder_hidden_states)
         IN  [status |-> p.status, base_forward_ran |-> TRUE, pred |-> p.pred]

(* ----------------------------- TurnEndPipeline ------------------------- *)

\* Mutant of prepare_audio_features: the window is cut from the front,
\* audio_array[:max_samples].
prepare_audio_features_leading(audio) ==
    LET loaded == IF audio.kind = "path"
                  THEN librosa_load(audio, sampling_rate)
                  ELSE [audio_array |-> audio.samples,
                        sampling_rate |-> sampling_rate]
        max_samples == max_duration * sampling_rate
        audio_array == PySliceTo(loaded.audio_array, max_samples)
    IN  [status |-> "ok", audio_array |-> audio_array,
         features |-> <<feature_extractor(audio_array)>>]

\* TurnEndPipeline._prepare_audio_features; audio_array is what is handed to
\* the feature extractor.
prepare_audio_features(audio) ==
    LET loaded == IF audio.kind = "path"
                  THEN librosa_load(audio, sampling_rate)
                  ELSE [audio_array |-> audio.samples,
                        sampling_rate |-> sampling_rate]
        max_samples == max_duration * sampling_rate
        audio_array == PySliceFrom(loaded.audio_array, 0 - max_samples)
    IN  IF audio.kind = "path" /\ loaded.sampling_rate # 16000
        THEN [status |-> "AssertionError", audio_array |-> <<>>,
              features |-> <<>>]
        ELSE [status |-> "ok", audio_array |-> audio_array,
              features |-> <<feature_extractor(audio_array)>>]

\* TurnEndPipeline.__call__ on a prepared audio.
call_forward(params, head, prep) ==
    LET out == forward_with_turn_end(params, head,
                   prep.features[1].input_features,
                   <<"decoder_start_token_id">>)
    IN  IF out.status # "ok"
        THEN [status |-> out.status, audio_array |-> prep.audio_array,
              base_forward_ran |-> out.base_forward_ran,
              turn_end_probability |-> <<>>]
        ELSE IF Len(out.pred) # 1
        THEN [status |-> "ValueError", audio_array |-> prep.audio_array,
              base_forward_ran |-> TRUE, turn_end_probability |-> <<>>]
        ELSE [status |-> "ok", audio_array |-> prep.audio_array,
              base_forward_ran |-> TRUE,
              turn_end_probability |-> <<out.pred[1]>>]

TurnEndPipeline_call(params, head, audio) ==
    LET prep == prepare_audio_features(audio)
    IN  IF prep.status # "ok"
        THEN [status |-> prep.status, audio_array |-> <<>>,
              base_forward_ran |-> FALSE, turn_end_probability |-> <<>>]
        ELSE call_forward(params, head, prep)

(* -------------------------------- inputs ------------------------------- *)

RunLens == {1, max_duration * sampling_rate}

SourceRates == {sampling_rate \div 2, sampling_rate}

Canonical(a) == \A i \in 1..(Len(a) - 1) : a[i].v # a[i + 1].v

Audios ==
    UNION { {a \in [1..k -> [v : Samples, n : RunLens]] : Canonical(a)}
            : k \in 1..MaxRuns }

\* An evaluate input: a file path (the file has its own rate) or an
\* already-loaded sample array (whose rate the pipeline is never told).
Inputs == [kind : {"path", "array"}, rate : SourceRates, samples : Audios]

Files == [kind : {"path"}, rate : SourceRates, samples : Audios]

Dims == {d_model, d_model + 128}

Heads == {TurnEndClassifier_init(e, d) : e \in Dims, d \in Dims}

HeadChoices == {NoneHead} \cup Heads

(* --------------------------------- state ------------------------------- *)

VARIABLES
    phase,                  \* "new" before the model object exists, then "ready"
    whisper_params,         \* the base model's weights
    whisper_requires_grad,  \* requires_grad of the base model's weights
    whisper_grad,           \* .grad accumulated on the base model's weights
    whisper_training,       \* module mode of the base model (train / eval)
    turn_end_classifier,    \* model.turn_end_classifier: NoneHead or a head
    last_call,              \* outcome of the latest TurnEndPipeline call
    train,                  \* control state and locals of train_model
    calls,                  \* concurrent pipeline calls, step by step (SpecConc)
    conv                    \* the head called on given tensors (SpecHead)

modelVars == <<phase, whisper_params, whisper_requires_grad, whisper_grad,
               whisper_training, turn_end_classifier>>

auxVars == <<calls, conv>>

vars == <<modelVars, last_call, train, auxVars>>

NoCall ==
    [input |-> <<>>, status |-> "none", audio_array |-> <<>>,
     base_forward_ran |-> FALSE, turn_end_probability |-> <<>>]

TrainIdle ==
    [pc |-> "idle", samples |-> <<>>, labels |-> <<>>, num_epochs |-> 0,
     epoch |-> 0, i |-> 0, optimizer |-> {}, epoch_loss |-> 0,
     losses |-> <<>>, turn_end_pred |-> <<>>, loss |-> 0, status |-> "ok",
     base_forward_ran |-> FALSE, whisper_before |-> 0, diag |-> <<>>]

Callers == {"c1", "c2"}

CallIdle ==
    [pc |-> "idle", input |-> <<>>, prep |-> <<>>, hidden |-> <<>>,
     compressed |-> <<>>, result |-> <<>>]

ConvIdle == [stream |-> "none", len0 |-> 0, batch |-> 0, stage |-> 0,
             len |-> 0, ok |-> TRUE, pool_in |-> <<>>, out |-> <<>>]

AuxInit ==
    /\ calls = [c \in Callers |-> CallIdle]
    /\ conv = ConvIdle

Init ==
    /\ phase = "new"
    /\ whisper_params = 0
    /\ whisper_requires_grad = TRUE
    /\ whisper_grad = 0
    /\ whisper_training = TRUE
    /\ turn_end_classifier = NoneHead
    /\ last_call = NoCall
    /\ train = TrainIdle
    /\ AuxInit

(* ------------------------------ construction --------------------------- *)

\* CustomWhisperModel(config, turn_end_classifier): randomly initialised base
\* weights, a fresh nn.Module is in training mode, every weight requires
\* grad; the head (or None) is stored as given.
CustomWhisperModel_init(tec) ==
    /\ phase = "new"
    /\ phase' = "ready"
    /\ whisper_params' = 2
    /\ whisper_requires_grad' = TRUE
    /\ whisper_grad' = 0
    /\ whisper_training' = TRUE
    /\ turn_end_classifier' = tec
    /\ UNCHANGED <<last_call, train, auxVars>>

\* CustomWhisperModel.from_pretrained(name, turn_end_classifier): the
\* pretrained base weights, put in eval mode by the loader; the head (or
\* None) is assigned afterwards, as given.
from_pretrained(tec) ==
    /\ phase = "new"
    /\ phase' = "ready"
    /\ whisper_params' = 1
    /\ whisper_requires_grad' = TRUE
    /\ whisper_grad' = 0
    /\ whisper_training' = FALSE
    /\ turn_end_classifier' = tec
    /\ UNCHANGED <<last_call, train, auxVars>>

Quiescent == train.pc \in {"idle", "returned", "error"}

\* model.turn_end_classifier = head, set after construction ("if
\* turn_end_classifier is None, we'll set it later").
set_turn_end_classifier(tec) ==
    /\ phase = "ready"
    /\ train.pc = "idle"
    /\ turn_end_classifier.is_none
    /\ turn_end_classifier' = tec
    /\ UNCHANGED <<phase, whisper_params, whisper_requires_grad, whisper_grad,
                   whisper_training, last_call, train, auxVars>>

(* -------------------------------- evaluate ----------------------------- *)

\* turn_end_pipe(audio): one whole TurnEndPipeline.__call__, from the call
\* to the returned dict (or the raised error), held in last_call.
Evaluate(audio) ==
    /\ phase = "ready"
    /\ Quiescent
    /\ last_call = NoCall
    /\ last_call' = [input |-> <<audio>>]
                    @@ TurnEndPipeline_call(whisper_params,
                                            turn_end_classifier, audio)
    /\ UNCHANGED <<modelVars, train, auxVars>>

\* The caller is done with the result: nothing of the call is kept.
discard_result ==
    /\ last_call # NoCall
    /\ last_call' = NoCall
    /\ UNCHANGED <<modelVars, train, auxVars>>

(* -------------------------------- training ----------------------------- *)

\* create_training_samples(audio_path): the whole recording, and its first
\* four seconds.
create_training_samples(audio_path) ==
    LET loaded == librosa_load(audio_path, 16000)
        audio == loaded.audio_array
        sr == loaded.sampling_rate
    IN  <<audio, PySliceTo(audio, partial_seconds * sr)>>

\* Python zip(samples, labels): the pairs up to the end of the shorter one.
zip(samples, labels) ==
    [k \in 1..Min(Len(samples), Len(labels)) |-> <<samples[k], labels[k]>>]

\* Mutant of OptimizerParams: the optimizer is built over model.parameters().
OptimizerParams_whole_model == {"head", "base"}

\* The parameter groups handed to optim.Adam in train_model:
\* model.turn_end_classifier.parameters().
OptimizerParams == {"head"}

\* nn.BCELoss on one prediction and one label, as a monotone proxy on the
\* fixed-point grid: the distance of the prediction from the label.
BCELoss(pred, target) ==
    IF target = 1 THEN Resolution - pred[1] ELSE pred[1]

\* Sign of d loss / d logit for a sigmoid output under BCE: p - y.
LossGrad(pred, target) == Sign(pred[1] - target * Resolution)

\* train_model up to the training loop: the samples, the optimizer and the
\* criterion. model.turn_end_classifier.parameters() on None raises
\* AttributeError.
train_model(audio_path, num_epochs) ==
    /\ phase = "ready"
    /\ train.pc = "idle"
    /\ last_call = NoCall
    /\ IF turn_end_classifier.is_none
       THEN train' = [TrainIdle EXCEPT !.pc = "error",
                                       !.status = "AttributeError",
                                       !.whisper_before = whisper_params]
       ELSE train' = [TrainIdle EXCEPT
                        !.pc = IF num_epochs > 0 THEN "epoch" ELSE "returned",
                        !.samples = create_training_samples(audio_path),
                        !.labels = <<1, 0>>,
                        !.num_epochs = num_epochs,
                        !.optimizer = OptimizerParams,
                        !.whisper_before = whisper_params]
    /\ UNCHANGED <<modelVars, last_call, auxVars>>

\* Mutant of train_single_epoch: model.eval() is left out, only the head's
\* mode is set.
train_single_epoch_no_eval(direct) ==
    /\ phase = "ready"
    /\ IF direct
       THEN train.pc = "idle" /\ turn_end_classifier.is_none
                              /\ last_call = NoCall
       ELSE train.pc = "epoch"
    /\ IF turn_end_classifier.is_none
       THEN /\ train' = [TrainIdle EXCEPT !.pc = "error",
                                          !.status = "AttributeError",
                                          !.whisper_before = whisper_params]
            /\ UNCHANGED turn_end_classifier
       ELSE /\ turn_end_classifier' =
                  [turn_end_classifier EXCEPT !.training = TRUE]
            /\ train' = [train EXCEPT
                           !.pc = IF zip(train.samples, train.labels) = <<>>
                                  THEN "epoch_return"
                                  ELSE "zero_grad",
                           !.epoch_loss = 0,
                           !.i = 1]
    /\ UNCHANGED <<phase, whisper_params, whisper_requires_grad, whisper_grad,
                   whisper_training, last_call, auxVars>>

\* train_single_epoch, its first two statements: model.eval() puts the base
\* model and every registered submodule (the head too) in eval mode, then
\* model.turn_end_classifier.train() puts the head back in training mode.
\* It is entered from train_model's loop, or called directly on a model
\* without head, where the second statement raises AttributeError.
train_single_epoch(direct) ==
    /\ phase = "ready"
    /\ IF direct
       THEN train.pc = "idle" /\ turn_end_classifier.is_none
                              /\ last_call = NoCall
       ELSE train.pc = "epoch"
    /\ whisper_training' = FALSE
    /\ IF turn_end_classifier.is_none
       THEN /\ train' = [TrainIdle EXCEPT !.pc = "error",
                                          !.status = "AttributeError",
                                          !.whisper_before = whisper_params]
            /\ UNCHANGED turn_end_classifier
       ELSE /\ turn_end_classifier' =
                  [turn_end_classifier EXCEPT !.training = TRUE]
            /\ train' = [train EXCEPT
                           !.pc = IF zip(train.samples, train.labels) = <<>>
                                  THEN "epoch_return"
                                  ELSE "zero_grad",
                           !.epoch_loss = 0,
                           !.i = 1]
    /\ UNCHANGED <<phase, whisper_params, whisper_requires_grad, whisper_grad,
                   last_call, auxVars>>

\* Mutant of optimizer_zero_grad: the gradients are not cleared.
optimizer_zero_grad_skipped ==
    /\ train.pc = "zero_grad"
    /\ train' = [train EXCEPT !.pc = "forward"]
    /\ UNCHANGED <<modelVars, last_call, auxVars>>

\* optimizer.zero_grad(): clears the gradients of the optimizer's own
\* parameters, and of no other.
optimizer_zero_grad ==
    /\ train.pc = "zero_grad"
    /\ turn_end_classifier' =
          IF "head" \in train.optimizer
          THEN [turn_end_classifier EXCEPT !.grad = [g \in HeadParams |-> 0]]
          ELSE turn_end_classifier
    /\ whisper_grad' = IF "base" \in train.optimizer THEN 0 ELSE whisper_grad
    /\ train' = [train EXCEPT !.pc = "forward"]
    /\ UNCHANGED <<phase, whisper_params, whisper_requires_grad,
                   whisper_training, last_call, auxVars>>

\* The feature extraction and forward pass of one training sample: the
\* sample goes to the feature extractor as it is, and the decoder is seeded
\* with tokenizer.pad_token_id.
train_forward ==
    /\ train.pc = "forward"
    /\ LET audio == train.samples[train.i]
           features == feature_extractor(audio)
           out == forward_with_turn_end(whisper_params, turn_end_classifier,
                      features.input_features, <<"pad_token_id">>)
       IN  train' = IF out.status = "ok"
                    THEN [train EXCEPT !.pc = "loss",
                                       !.turn_end_pred = out.pred,
                                       !.base_forward_ran = TRUE]
                    ELSE [train EXCEPT !.pc = "error",
                                       !.status = out.status,
                                       !.base_forward_ran = out.base_forward_ran]
    /\ UNCHANGED <<modelVars, last_call, auxVars>>

\* loss = criterion(turn_end_pred, target).
criterion ==
    /\ train.pc = "loss"
    /\ train' = [train EXCEPT
                   !.pc = "backward",
                   !.loss = BCELoss(train.turn_end_pred, train.labels[train.i])]
    /\ UNCHANGED <<modelVars, last_call, auxVars>>

\* loss.backward(): adds the sample's gradient to .grad of every parameter
\* in the graph that requires grad, the head's and the base model's.
loss_backward ==
    /\ train.pc = "backward"
    /\ LET g == LossGrad(train.turn_end_pred, train.labels[train.i])
       IN  /\ turn_end_classifier' =
                 [turn_end_classifier EXCEPT
                    !.grad = [p \in HeadParams |->
                                turn_end_classifier.grad[p] + g]]
           /\ whisper_grad' = IF whisper_requires_grad
                              THEN whisper_grad + g
                              ELSE whisper_grad
    /\ train' = [train EXCEPT !.pc = "step"]
    /\ UNCHANGED <<phase, whisper_params, whisper_requires_grad,
                   whisper_training, last_call, auxVars>>

\* optimizer.step() and epoch_loss += loss.item(): every parameter of the
\* optimizer moves against its accumulated gradient.
optimizer_step ==
    /\ train.pc = "step"
    /\ turn_end_classifier' =
          IF "head" \in train.optimizer
          THEN [turn_end_classifier EXCEPT
                  !.params = [p \in HeadParams |->
                                turn_end_classifier.params[p]
                                  - Sign(turn_end_classifier.grad[p])]]
          ELSE turn_end_classifier
    /\ whisper_params' = IF "base" \in train.optimizer
                         THEN whisper_params - Sign(whisper_grad)
                         ELSE whisper_params
    /\ train' = [train EXCEPT
                   !.epoch_loss = train.epoch_loss + train.loss,
                   !.i = train.i + 1,
                   !.pc = IF train.i < Len(zip(train.samples, train.labels))
                          THEN "zero_grad"
                          ELSE "epoch_return"]
    /\ UNCHANGED <<phase, whisper_requires_grad, whisper_grad,
                   whisper_training, last_call, auxVars>>

\* Mutant of AfterEpoch: the loop stops early once the mean epoch loss is
\* at most one half.
AfterEpoch_early_stop(t) ==
    IF /\ t.epoch + 1 < t.num_epochs
       /\ 2 * t.losses[Len(t.losses)].sum > Resolution * Len(t.samples)
    THEN [t EXCEPT !.pc = "epoch", !.epoch = t.epoch + 1]
    ELSE [t EXCEPT !.pc = "returned", !.epoch = t.epoch + 1]

\* for epoch in range(num_epochs): the next iteration, or the return of
\* the loss history after the last one.
AfterEpoch(t) ==
    IF t.epoch + 1 < t.num_epochs
    THEN [t EXCEPT !.pc = "epoch", !.epoch = t.epoch + 1]
    ELSE [t EXCEPT !.pc = "returned", !.epoch = t.epoch + 1]

\* return epoch_loss / len(samples), and losses.append(loss) in train_model;
\* the quotient is kept as the pair sum, count, and the division by
\* len(samples) = 0 raises ZeroDivisionError.
train_single_epoch_return ==
    /\ train.pc = "epoch_return"
    /\ LET t == [train EXCEPT
                   !.losses = Append(train.losses,
                                 [sum |-> train.epoch_loss,
                                  count |-> Len(train.samples)])]
       IN  train' = IF Len(train.samples) = 0
                    THEN [train EXCEPT !.pc = "error",
                                       !.status = "ZeroDivisionError"]
                    ELSE IF train.epoch % 10 = 0
                    THEN [t EXCEPT !.pc = "diag"]
                    ELSE AfterEpoch(t)
    /\ UNCHANGED <<modelVars, last_call, auxVars>>

\* Mutant of print_predictions: the diagnostic pass trains on what it
\* predicts, moving the head against the sign of each prediction's error.
print_predictions_training ==
    /\ train.pc = "diag"
    /\ LET preds == [k \in 1..Len(train.samples) |->
                       forward_with_turn_end(whisper_params,
                           turn_end_classifier,
                           feature_extractor(train.samples[k]).input_features,
                           <<"pad_token_id">>).pred]
       IN  /\ train' = AfterEpoch([train EXCEPT !.diag = preds])
           /\ turn_end_classifier' =
                 [turn_end_classifier EXCEPT
                    !.params = [p \in HeadParams |->
                       turn_end_classifier.params[p]
                         - LossGrad(preds[1], train.labels[1])]]
    /\ UNCHANGED <<phase, whisper_params, whisper_requires_grad, whisper_grad,
                   whisper_training, last_call, auxVars>>

\* The predictions printed every tenth epoch, under torch.no_grad().
print_predictions ==
    /\ train.pc = "diag"
    /\ LET preds == [k \in 1..Len(zip(train.samples, train.labels)) |->
                       forward_with_turn_end(whisper_params,
                           turn_end_classifier,
                           feature_extractor(train.samples[k]).input_features,
                           <<"pad_token_id">>).pred]
       IN  train' = AfterEpoch([train EXCEPT !.diag = preds])
    /\ UNCHANGED <<modelVars, last_call, auxVars>>

(* ----------------------------- specification --------------------------- *)

Next ==
    \/ \E tec \in HeadChoices : CustomWhisperModel_init(tec)
    \/ \E tec \in HeadChoices : from_pretrained(tec)
    \/ \E tec \in Heads : set_turn_end_classifier(tec)
    \/ \E audio \in Inputs : Evaluate(audio)
    \/ discard_result
    \/ \E audio_path \in Files, num_epochs \in 0..MaxEpochs :
          train_model(audio_path, num_epochs)
    \/ \E direct \in BOOLEAN : train_single_epoch(direct)
    \/ optimizer_zero_grad
    \/ train_forward
    \/ criterion
    \/ loss_backward
    \/ optimizer_step
    \/ train_single_epoch_return
    \/ print_predictions

Spec == Init /\ [][Next]_vars

(* ------------------------- train_model, run to its end ----------------- *)

\* A model with any head, attached at construction.
InitTrain ==
    /\ phase = "ready"
    /\ \/ whisper_params = 1 /\ whisper_training = FALSE
       \/ whisper_params = 2 /\ whisper_training = TRUE
    /\ whisper_requires_grad = TRUE
    /\ whisper_grad = 0
    /\ turn_end_classifier \in Heads
    /\ last_call = NoCall
    /\ train = TrainIdle
    /\ AuxInit

\* The statements of a running train_model call, one at a time.
TrainStep ==
    \/ train_single_epoch(FALSE)
    \/ optimizer_zero_grad
    \/ train_forward
    \/ criterion
    \/ loss_backward
    \/ optimizer_step
    \/ train_single_epoch_return
    \/ print_predictions

NextTrain ==
    \/ \E audio_path \in Files, num_epochs \in 0..MaxEpochs :
          train_model(audio_path, num_epochs)
    \/ TrainStep

\* The interpreter keeps executing a call that has started: the next
\* statement of a running train_model is eventually executed. This is weak
\* fairness of every statement; for the two forward passes it is written
\* by their enabling condition (train_forward is enabled exactly at
\* position "forward" and leaves it, print_predictions exactly at "diag").
TrainFairness ==
    /\ WF_vars(train_single_epoch(FALSE))
    /\ WF_vars(optimizer_zero_grad)
    /\ []<>(train.pc # "forward")
    /\ WF_vars(criterion)
    /\ WF_vars(loss_backward)
    /\ WF_vars(optimizer_step)
    /\ WF_vars(train_single_epoch_return)
    /\ []<>(train.pc # "diag")

SpecTrain == InitTrain /\ [][NextTrain]_vars /\ TrainFairness

(* ------------- train_single_epoch on given samples and labels --------- *)

\* The sample and label lists a caller hands to train_single_epoch: any
\* short lists, of equal length or not.
EpochAudios == {a \in Audios : Len(a) = 1}

EpochSamples == UNION {[1..n -> EpochAudios] : n \in 0..MaxSamples}

EpochLabels == UNION {[1..n -> {0, 1}] : n \in 0..MaxSamples}

\* A caller, with the optimizer and criterion of train_model, about to
\* call train_single_epoch(model, samples, labels, ...) once.
InitEpoch ==
    /\ phase = "ready"
    /\ \/ whisper_params = 1 /\ whisper_training = FALSE
       \/ whisper_params = 2 /\ whisper_training = TRUE
    /\ whisper_requires_grad = TRUE
    /\ whisper_grad = 0
    /\ turn_end_classifier = TurnEndClassifier_init(d_model, d_model)
    /\ last_call = NoCall
    /\ \E samples \in EpochSamples, labels \in EpochLabels :
          train = [TrainIdle EXCEPT !.pc = "epoch",
                                    !.samples = samples,
                                    !.labels = labels,
                                    !.num_epochs = 1,
                                    !.optimizer = OptimizerParams,
                                    !.whisper_before = whisper_params]
    /\ AuxInit

NextEpoch ==
    \/ train_single_epoch(FALSE)
    \/ optimizer_zero_grad
    \/ train_forward
    \/ criterion
    \/ loss_backward
    \/ optimizer_step
    \/ train_single_epoch_return
    \/ print_predictions

SpecEpoch == InitEpoch /\ [][NextEpoch]_vars

(* ------------------- the head applied to given tensors ----------------- *)

\* Sequence lengths given to a compressor: the short ones, and the 1500
\* encoder steps of a 30 s window.
SeqLens == (1..MaxSeqLen) \cup {encoder_steps}

Layers(stream) == IF stream = "encoder" THEN encoder_conv ELSE decoder_conv

\* A head after some training: any parameter values in the range.
TrainedHeads ==
    { [h EXCEPT !.params = p] :
        h \in Heads, p \in [HeadParams -> (0 - MaxWeight)..MaxWeight] }

InitHead ==
    /\ phase = "ready"
    /\ whisper_params = 1
    /\ whisper_requires_grad = TRUE
    /\ whisper_grad = 0
    /\ whisper_training = FALSE
    /\ turn_end_classifier \in TrainedHeads
    /\ last_call = NoCall
    /\ train = TrainIdle
    /\ AuxInit

\* TurnEndClassifier.forward on one stream, up to the transpose: the reduce
\* layer keeps the sequence length.
head_reduce(stream, n, batch) ==
    /\ conv = ConvIdle
    /\ last_call = NoCall
    /\ conv' = [ConvIdle EXCEPT !.stream = stream, !.len0 = n, !.len = n,
                                !.batch = batch]
    /\ UNCHANGED <<modelVars, last_call, train, calls>>

\* The next Conv1d + ReLU of the stream's stack.
conv_layer ==
    /\ conv.stream \in {"encoder", "decoder"}
    /\ conv.ok
    /\ conv.stage < Len(Layers(conv.stream))
    /\ LET r == Conv1d(Layers(conv.stream)[conv.stage + 1], conv.len)
       IN  conv' = [conv EXCEPT !.stage = conv.stage + 1,
                                !.len = r.len,
                                !.ok = r.ok]
    /\ UNCHANGED <<modelVars, last_call, train, calls>>

\* The stream's AdaptiveMaxPool1d(1) and squeeze(-1).
head_pool ==
    /\ conv.stream \in {"encoder", "decoder"}
    /\ conv.ok
    /\ conv.stage = Len(Layers(conv.stream))
    /\ conv.out = <<>>
    /\ LET r == AdaptiveMaxPool1d(conv.len)
       IN  conv' = [conv EXCEPT
                      !.pool_in = <<conv.len>>,
                      !.len = r.len,
                      !.ok = r.ok,
                      !.out = IF r.ok
                              THEN <<[shape |-> <<conv.batch,
                                          turn_end_classifier.hidden_dim>>]>>
                              ELSE <<>>]
    /\ UNCHANGED <<modelVars, last_call, train, calls>>

\* self.fc on given encoder and decoder feature vectors.
head_fc(encoder_val, decoder_val, batch) ==
    /\ conv = ConvIdle
    /\ last_call = NoCall
    /\ LET shape == <<batch, turn_end_classifier.hidden_dim>>
       IN  conv' = [ConvIdle EXCEPT
                      !.stream = "fc",
                      !.batch = batch,
                      !.out = <<fc(turn_end_classifier,
                                   [shape |-> shape, val |-> encoder_val],
                                   [shape |-> shape, val |-> decoder_val])>>]
    /\ UNCHANGED <<modelVars, last_call, train, calls>>

\* The direct call is over, by its result or by its error.
head_return ==
    /\ conv # ConvIdle
    /\ conv' = ConvIdle
    /\ UNCHANGED <<modelVars, last_call, train, calls>>

NextHead ==
    \/ \E stream \in {"encoder", "decoder"}, n \in SeqLens, batch \in 1..MaxBatch :
          head_reduce(stream, n, batch)
    \/ conv_layer
    \/ head_pool
    \/ \E ev \in (0 - MaxVal)..MaxVal, dv \in (0 - MaxVal)..MaxVal,
          batch \in 1..MaxBatch :
          head_fc(ev, dv, batch)
    \/ head_return
    \/ \E audio \in Inputs : conv = ConvIdle /\ Evaluate(audio)
    \/ discard_result

SpecHead == InitHead /\ [][NextHead]_vars

(* ----------------------- concurrent evaluate calls --------------------- *)

\* Loaded 16 kHz arrays.
ConcInputs == {a \in Inputs : a.kind = "array" /\ a.rate = sampling_rate}

InitConc ==
    /\ phase = "ready"
    /\ \/ whisper_params = 1 /\ whisper_training = FALSE
       \/ whisper_params = 2 /\ whisper_training = TRUE
    /\ whisper_requires_grad = TRUE
    /\ whisper_grad = 0
    /\ turn_end_classifier = TurnEndClassifier_init(d_model, d_model)
    /\ last_call = NoCall
    /\ train = TrainIdle
    /\ AuxInit

CallResult(status, probability) ==
    [status |-> status, turn_end_probability |-> probability]

\* Mutant of call_begin: dropout is active while the base model is in
\* training mode, so the hidden states depend on the module mode.
call_begin_dropout(c, audio) ==
    /\ calls[c].pc = "idle"
    /\ LET prep == prepare_audio_features(audio)
           started == [CallIdle EXCEPT !.input = <<audio>>, !.prep = <<prep>>]
           out == WhisperForward(whisper_params,
                                 prep.features[1].input_features,
                                 <<"decoder_start_token_id">>)
           drop == IF whisper_training THEN 1 ELSE 0
       IN  calls' = [calls EXCEPT ![c] =
              IF turn_end_classifier.is_none
              THEN [started EXCEPT !.pc = "done",
                                   !.result = <<CallResult("AssertionError", <<>>)>>]
              ELSE [started EXCEPT
                      !.pc = "encoded",
                      !.hidden = <<[out EXCEPT
                          !.encoder_last_hidden_state.val = @ + drop]>>]]
    /\ UNCHANGED <<modelVars, last_call, train, conv>>

\* Mutant of call_begin: the hidden states are kept on the shared model
\* object, so a call that starts overwrites those of a call still running.
call_begin_shared(c, audio) ==
    /\ calls[c].pc = "idle"
    /\ LET prep == prepare_audio_features(audio)
           hidden == <<WhisperForward(whisper_params,
                           prep.features[1].input_features,
                           <<"decoder_start_token_id">>)>>
       IN  calls' = [d \in Callers |->
              IF d = c
              THEN [CallIdle EXCEPT !.input = <<audio>>, !.prep = <<prep>>,
                                    !.pc = "encoded", !.hidden = hidden]
              ELSE IF calls[d].pc = "encoded"
              THEN [calls[d] EXCEPT !.hidden = hidden]
              ELSE calls[d]]
    /\ UNCHANGED <<modelVars, last_call, train, conv>>

\* TurnEndPipeline.__call__ up to the base model's forward pass inside
\* forward_with_turn_end: the features and the hidden states are locals of
\* the call.
call_begin(c, audio) ==
    /\ calls[c].pc = "idle"
    /\ LET prep == prepare_audio_features(audio)
           started == [CallIdle EXCEPT !.input = <<audio>>, !.prep = <<prep>>]
       IN  calls' = [calls EXCEPT ![c] =
              IF prep.status # "ok"
              THEN [started EXCEPT !.pc = "done",
                                   !.result = <<CallResult(prep.status, <<>>)>>]
              ELSE IF turn_end_classifier.is_none
              THEN [started EXCEPT !.pc = "done",
                                   !.result = <<CallResult("AssertionError", <<>>)>>]
              ELSE [started EXCEPT
                      !.pc = "encoded",
                      !.hidden = <<WhisperForward(whisper_params,
                                      prep.features[1].input_features,
                                      <<"decoder_start_token_id">>)>>]]
    /\ UNCHANGED <<modelVars, last_call, train, conv>>

\* The head's reduce layers, conv stacks and pools on the call's hidden
\* states.
call_compress(c) ==
    /\ calls[c].pc = "encoded"
    /\ LET r == Compress(turn_end_classifier,
                    calls[c].hidden[1].encoder_last_hidden_state,
                    calls[c].hidden[1].decoder_hidden_states)
       IN  calls' = [calls EXCEPT ![c] =
              IF r.status # "ok"
              THEN [@ EXCEPT !.pc = "done",
                             !.result = <<CallResult(r.status, <<>>)>>]
              ELSE [@ EXCEPT !.pc = "compressed", !.compressed = <<r>>]]
    /\ UNCHANGED <<modelVars, last_call, train, conv>>

\* The head's fc on the call's features, and squeeze().item().
call_classify(c) ==
    /\ calls[c].pc = "compressed"
    /\ LET pred == fc(turn_end_classifier,
                      calls[c].compressed[1].encoder_features[1],
                      calls[c].compressed[1].decoder_features[1])
       IN  calls' = [calls EXCEPT ![c] =
              [@ EXCEPT !.pc = "done",
                        !.result = IF Len(pred) = 1
                                   THEN <<CallResult("ok", <<pred[1]>>)>>
                                   ELSE <<CallResult("ValueError", <<>>)>>]]
    /\ UNCHANGED <<modelVars, last_call, train, conv>>

\* The call returns; its locals are dropped.
call_return(c) ==
    /\ calls[c].pc = "done"
    /\ calls' = [calls EXCEPT ![c] = CallIdle]
    /\ UNCHANGED <<modelVars, last_call, train, conv>>

\* The mode statements that open train_single_epoch, run by a trainer
\* beside the calls.
conc_epoch_enter ==
    /\ whisper_training' = FALSE
    /\ turn_end_classifier' = [turn_end_classifier EXCEPT !.training = TRUE]
    /\ UNCHANGED <<phase, whisper_params, whisper_requires_grad, whisper_grad,
                   last_call, train, calls, conv>>

\* One sample step of the trainer, whose gradient has sign g: the head's
\* parameters move against it. Training and inference phases are serialised
\* by the caller (a lock, a single writer): the step is taken only while no
\* call is in flight or holds a result.
conc_optimizer_step(g) ==
    /\ \A c \in Callers : calls[c].pc = "idle"
    /\ \A p \in HeadParams :
          turn_end_classifier.params[p] - g \in (0 - MaxWeight)..MaxWeight
    /\ turn_end_classifier' =
          [turn_end_classifier EXCEPT
             !.params = [p \in HeadParams |-> turn_end_classifier.params[p] - g]]
    /\ UNCHANGED <<phase, whisper_params, whisper_requires_grad, whisper_grad,
                   whisper_training, last_call, train, calls, conv>>

NextConc ==
    \/ \E c \in Callers, audio \in ConcInputs : call_begin(c, audio)
    \/ \E c \in Callers : call_compress(c)
    \/ \E c \in Callers : call_classify(c)
    \/ \E c \in Callers : call_return(c)
    \/ conc_epoch_enter
    \/ \E g \in {0 - 1, 1} : conc_optimizer_step(g)

SpecConc == InitConc /\ [][NextConc]_vars

(* --------------------------------- claims ------------------------------ *)

Attached == phase = "ready" /\ ~turn_end_classifier.is_none

NoHead == phase = "ready" /\ turn_end_classifier.is_none

\* C2: every evaluate call whose input, a file or a loaded array, is
\* actually sampled at another rate than the 16 kHz target fails and
\* returns no probability.
C2_RateMismatchFails ==
    (last_call # NoCall /\ last_call.input[1].rate # sampling_rate)
        => (last_call.status # "ok" /\ last_call.turn_end_probability = <<>>)

\* C3: without a head, every evaluate call and every train call ends in an
\* error, before the base model's forward pass has run and with no
\* prediction, and no step taken without a head changes a parameter.
C3_NoHeadEvaluate ==
    (NoHead /\ last_call # NoCall)
        => /\ last_call.status = "AssertionError"
           /\ ~last_call.base_forward_ran
           /\ last_call.turn_end_probability = <<>>

C3_NoHeadTrain ==
    (NoHead /\ train.pc # "idle")
        => /\ train.pc = "error"
           /\ train.status = "AttributeError"
           /\ ~train.base_forward_ran
           /\ train.turn_end_pred = <<>>
           /\ train.losses = <<>>

C3_NoHeadFails ==
    /\ [](C3_NoHeadEvaluate /\ C3_NoHeadTrain)
    /\ [][NoHead => (whisper_params' = whisper_params
                     /\ (NoHead' => turn_end_classifier' = turn_end_classifier))]_vars

\* A model without head on which an evaluate call and a train call
\* have both failed.
C3_Witness ==
    /\ NoHead
    /\ last_call.status = "AssertionError"
    /\ train.pc = "error"

\* C4: from the start of train_model on, through every sample step and
\* every epoch, the base model's weights have the value they had when
\* training started.
C4_BaseWeightsUnchanged ==
    train.pc # "idle" => whisper_params = train.whisper_before

\* In the second epoch, after an optimizer step that moved the head.
C4_Witness ==
    /\ train.pc = "zero_grad"
    /\ train.epoch = 1
    /\ train.i = 2
    /\ turn_end_classifier.params
          # TurnEndClassifier_init(d_model, d_model).params
    /\ whisper_params = train.whisper_before

\* C5: once a head is attached, no base-model weight requires grad.
C5_BaseFrozenOnceAttached ==
    Attached => ~whisper_requires_grad

\* C9: a head whose declared encoder or decoder dimension differs from the
\* base model's hidden size is refused when it is attached, so no such head
\* is ever attached and no forward call fails on the dimensions.
C9_DimensionCheckedAtAttach ==
    /\ Attached => /\ turn_end_classifier.encoder_dim = d_model
                   /\ turn_end_classifier.decoder_dim = d_model
    /\ last_call.status # "RuntimeError"

\* C6: for every sequence length >= 1 each compressor runs through every
\* layer without failing, the length entering the pool is >= 1, and the
\* result has shape [batch, hidden_dim].
C6_CompressorsNeverFail ==
    conv.stream \in {"encoder", "decoder"}
        => /\ conv.ok
           /\ conv.pool_in # <<>>
                => /\ conv.pool_in[1] >= 1
                   /\ conv.out = <<[shape |-> <<conv.batch, hidden_dim>>]>>

\* C8: the classifier's output on any feature vectors lies between 0 and 1
\* (0 and Resolution on the grid), and a successful evaluate call returns
\* exactly one such number.
C8_ProbabilityInUnitInterval ==
    /\ conv.stream = "fc"
         => /\ Len(conv.out[1]) = conv.batch
            /\ \A b \in 1..Len(conv.out[1]) : conv.out[1][b] \in 0..Resolution
    /\ last_call.status = "ok"
         => /\ Len(last_call.turn_end_probability) = 1
            /\ last_call.turn_end_probability[1] \in 0..Resolution

\* A successful evaluate call whose logit is beyond the grid: the returned
\* probability is exactly 1.
C8_Witness ==
    /\ last_call.status = "ok"
    /\ last_call.turn_end_probability = <<Resolution>>
    /\ turn_end_classifier.params["compressor"] = MaxWeight


(* ------------------------ claims on the pipeline ----------------------- *)

\* The last k samples of a, counted from its end.
RECURSIVE LastSamples(_, _)
LastSamples(a, k) ==
    IF k <= 0 \/ a = <<>> THEN <<>>
    ELSE LET r == a[Len(a)]
             front == SubSeq(a, 1, Len(a) - 1)
         IN  IF r.n >= k THEN <<[v |-> r.v, n |-> k]>>
             ELSE Concat(LastSamples(front, k - r.n), <<r>>)

\* The 16 kHz samples an input stands for.
Loaded(input) ==
    IF input.kind = "path"
    THEN librosa_load(input, sampling_rate).audio_array
    ELSE input.samples

Window == max_duration * sampling_rate

\* C1: an evaluate call works on exactly the final 480000 samples of its
\* input (on the whole input when it is no longer than that), and any other
\* input longer than the window whose final 480000 samples are the same,
\* in particular the same audio with anything prepended, gets the same
\* probability from the model that answered the call.
C1_TrailingWindow ==
    last_call # NoCall =>
        LET a == Loaded(last_call.input[1])
        IN  /\ Length(a) <= Window => last_call.audio_array = a
            /\ Length(a) > Window =>
                  /\ last_call.audio_array = LastSamples(a, Window)
                  /\ \A b \in Inputs :
                        (/\ last_call.status = "ok"
                         /\ Length(Loaded(b)) > Window
                         /\ LastSamples(Loaded(b), Window)
                                = LastSamples(a, Window))
                        => TurnEndPipeline_call(whisper_params,
                               turn_end_classifier, b).turn_end_probability
                             = last_call.turn_end_probability

\* An evaluated recording longer than the window, whose leading window
\* differs from its trailing one, and another input that ends the same way.
C1_Witness ==
    /\ last_call.status = "ok"
    /\ LET a == Loaded(last_call.input[1])
       IN  /\ Length(a) > Window
           /\ TakeFirst(a, Window) # LastSamples(a, Window)
           /\ feature_extractor(a) # feature_extractor(last_call.audio_array)
           /\ \E b \in Inputs :
                 /\ Loaded(b) # a
                 /\ Length(Loaded(b)) > Window
                 /\ LastSamples(Loaded(b), Window) = LastSamples(a, Window)

(* -------------------- claims on concurrent evaluation ------------------ *)

\* C7: with the weights fixed and the base model in eval mode, evaluate
\* calls on the same input return the same result, whatever calls run in
\* between and whatever the module modes were when each of them started.
C7_SameInputSameResult ==
    \A c \in Callers, d \in Callers :
        (/\ calls[c].pc = "done"
         /\ calls[d].pc = "done"
         /\ calls[c].input = calls[d].input)
        => calls[c].result = calls[d].result

\* Two finished calls on one input, both with a probability, after the
\* trainer has changed the weights and the module modes.
C7_Witness ==
    /\ calls["c1"].pc = "done"
    /\ calls["c2"].pc = "done"
    /\ calls["c1"].input = calls["c2"].input
    /\ calls["c1"].result[1].status = "ok"
    /\ turn_end_classifier # TurnEndClassifier_init(d_model, d_model)
    /\ whisper_params = 2
    /\ ~whisper_training

\* C10: a finished evaluate call holds what a call running alone on its
\* input returns, whatever the other call did meanwhile, and no step of a
\* call writes the model's weights, gradients, modes or head.
C10_CallsIndependent ==
    /\ [](\A c \in Callers :
             calls[c].pc = "done" =>
                LET alone == TurnEndPipeline_call(whisper_params,
                                 turn_end_classifier, calls[c].input[1])
                IN  calls[c].result =
                       <<CallResult(alone.status, alone.turn_end_probability)>>)
    /\ [][(calls' # calls) => UNCHANGED modelVars]_vars

\* One call finished with a probability while another call, on another
\* input, is half way through the head.
C10_Witness ==
    /\ calls["c1"].pc = "done"
    /\ calls["c1"].result[1].status = "ok"
    /\ calls["c2"].pc = "compressed"
    /\ calls["c1"].input # calls["c2"].input
    /\ calls["c1"].result[1].turn_end_probability #
          TurnEndPipeline_call(whisper_params, turn_end_classifier,
              calls["c2"].input[1]).turn_end_probability

(* --------------------------- claims on training ------------------------ *)

\* C11: the head's parameters change only in the optimizer step of a
\* training sample: no evaluate call, no forward pass or loss computation
\* of a training step, and no diagnostic prediction pass changes them.
C11_HeadParamsChangeOnlyInStep ==
    [][(/\ Attached
        /\ Attached'
        /\ turn_end_classifier'.params # turn_end_classifier.params)
       => (train.pc = "step" /\ last_call' = last_call)]_vars

\* A model that was trained, with a diagnostic pass, and then evaluated.
C11_Witness ==
    /\ train.pc = "returned"
    /\ train.losses # <<>>
    /\ train.diag # <<>>
    /\ last_call.status = "ok"

\* C12: in every state reached during training no base-model weight holds
\* an accumulated gradient.
C12_NoBaseGradient ==
    train.pc # "idle" => whisper_grad = 0

\* The positions of one sample step, in the order of the loop body.
SampleStepOrder ==
    { <<"zero_grad", "forward">>, <<"forward", "loss">>,
      <<"forward", "error">>, <<"loss", "backward">>,
      <<"backward", "step">>, <<"step", "zero_grad">>,
      <<"step", "epoch_return">> }

C14_EpochLossIsMean ==
    /\ train.status # "ZeroDivisionError"
    /\ train.losses # <<>> =>
          /\ train.i - 1 = Len(train.samples)
          /\ train.losses[Len(train.losses)].count = train.i - 1

WellFormedHead ==
    /\ ~turn_end_classifier.is_none
    /\ turn_end_classifier.encoder_dim = d_model
    /\ turn_end_classifier.decoder_dim = d_model

\* C15: a train_model call always comes to its end; when it returns it has
\* run exactly num_epochs epochs, whatever the losses were, and the loss
\* history has one entry per epoch, appended in epoch order; with a head
\* of the base model's dimensions it does return.
C15_TrainModelTerminates ==
    /\ [](train.pc = "returned" =>
            /\ train.epoch = train.num_epochs
            /\ Len(train.losses) = train.num_epochs)
    /\ [][train.losses' # train.losses =>
            /\ Len(train.losses) = train.epoch
            /\ train.losses' = Append(train.losses,
                                      [sum |-> train.epoch_loss,
                                       count |-> Len(train.samples)])]_vars
    /\ (train.pc # "idle" ~> train.pc \in {"returned", "error"})
    /\ ((train.pc # "idle" /\ WellFormedHead) ~> train.pc = "returned")

\* A returned training run of the largest number of epochs, whose epoch
\* losses were not zero.
C15_Witness ==
    /\ train.pc = "returned"
    /\ train.num_epochs = MaxEpochs
    /\ Len(train.losses) = MaxEpochs
    /\ \A k \in 1..MaxEpochs : train.losses[k].sum > 0

\* C16: a training step feeds the model what an evaluate call on the same
\* audio would: the same window of the audio and the same decoder seed
\* token, so the prediction that enters the loss is the probability
\* evaluate returns with the same parameters.
C16_TrainingFeedsEvaluateInputs ==
    train.pc \in {"loss", "backward", "step"} =>
        LET audio == [kind |-> "array", rate |-> sampling_rate,
                      samples |-> train.samples[train.i]]
        IN  /\ feature_extractor(train.samples[train.i])
                  = prepare_audio_features(audio).features[1]
            /\ train.turn_end_pred =
                  TurnEndPipeline_call(whisper_params, turn_end_classifier,
                                       audio).turn_end_probability

\* C17: at every forward pass of training, in the sample steps and in the
\* diagnostic predictions, the base model is in eval mode and the head is
\* in training mode.
C17_ModesDuringTraining ==
    train.pc \in {"zero_grad", "forward", "loss", "backward", "step",
                  "epoch_return", "diag"}
        => /\ ~whisper_training
           /\ turn_end_classifier.training

\* The diagnostic pass on a model that was constructed in training mode.
C17_Witness ==
    /\ train.pc = "diag"
    /\ whisper_params = 2
    /\ ~whisper_training
    /\ turn_end_classifier.training

(* ----------------------- claims on the conv lengths -------------------- *)

\* f(n) = floor((n - 3) / 3) + 1.
ConvLength(n) == ((n - 3) \div 3) + 1

\* C18: each of the acoustic compressor's three convolutions needs a
\* length n >= 3 and maps it to f(n) = floor((n - 3) / 3) + 1; the stack
\* reaches the pool exactly when L >= 27, with length f(f(f(L))) >= 1,
\* non-decreasing in L, and 55 for the 1500 encoder steps.
C18_EncoderConvLengths ==
    conv.stream = "encoder" =>
        /\ (conv.stage = 1 /\ conv.ok) =>
               conv.len0 >= 3 /\ conv.len = ConvLength(conv.len0)
        /\ (conv.stage = 2 /\ conv.ok) =>
               /\ ConvLength(conv.len0) >= 3
               /\ conv.len = ConvLength(ConvLength(conv.len0))
        /\ (conv.stage >= 1 /\ ~conv.ok) => (conv.len < 3 /\ conv.len0 < 27)
        /\ (conv.stage = 3 /\ conv.ok) => conv.len0 >= 27
        /\ conv.len0 >= 27 => conv.ok
        /\ conv.pool_in # <<>> =>
               /\ conv.pool_in[1] =
                     ConvLength(ConvLength(ConvLength(conv.len0)))
               /\ conv.pool_in[1] >= 1
               /\ conv.len0 = encoder_steps => conv.pool_in[1] = 55
               /\ \A L \in 1..conv.len0 :
                     LET r == Sequential(encoder_conv, L)
                     IN  /\ r.ok <=> L >= 27
                         /\ r.ok => r.len <= conv.pool_in[1]

\* The 1500 encoder steps of a 30 s window, pooled from length 55.
C18_Witness ==
    /\ conv.stream = "encoder"
    /\ conv.len0 = encoder_steps
    /\ conv.pool_in = <<55>>
    /\ conv.out # <<>>

=============================================================================
